---- MODULE Spec2Model ----
(***************************************************************************)
(* The Decoder of strongsup/decoder.py as a state machine.                 *)
(*                                                                         *)
(* The Decoder object is the variable `decoder` (its fields), `given` is   *)
(* what its constructor was given, `pc` is the position of the             *)
(* single-threaded caller, `call` is the operation that ran last with its  *)
(* arguments and its outcome, and `calls` is the list of calls that        *)
(* operation issued to the external collaborators (exploration policy,     *)
(* case weighter, value function, scoring model), in order.                *)
(*                                                                         *)
(* Four specifications share the definitions:                              *)
(*   Spec       a constructed Decoder serving predictions, get_probs,      *)
(*              score_breakdown and train_step;                            *)
(*   SpecCtor   construction (Decoder.__init__) and the predicate          *)
(*              dictionary with decisions_to_one_hot;                      *)
(*   SpecProbs  get_probs on a Decoder object of either normalization;     *)
(*   SpecBreakdown  score_breakdown alone, on lists of paths.              *)
(***************************************************************************)
EXTENDS Integers, Sequences, FiniteSets

VARIABLES decoder, given, pc, call, calls

vars == <<decoder, given, pc, call, calls>>

(***************************************************************************)
(* Bounds of the model.                                                    *)
(***************************************************************************)
MaxBatch == 2          \* examples in one batch
MaxBeam == 2           \* paths in one beam returned by an exploration policy
MaxPathLen == 1        \* cases in one path of such a beam
MaxBatchPaths == 3     \* paths in the beams of one batch, all together
MaxTrainSteps == 2     \* train_step calls in one behaviour
MaxPaths == 3          \* paths given to score_breakdown
MaxCases == 3          \* cases in one path given to score_breakdown
MaxProbBeam == 3       \* paths in a beam given to get_probs
MaxPredicates == 3     \* predicates given to the constructor
MaxDecisions == 2      \* decisions given to decisions_to_one_hot

(***************************************************************************)
(* Generic helpers (Python built-ins and gtd.utils.flatten).               *)
(***************************************************************************)
SeqsUpTo(S, n) == UNION {[1..k -> S] : k \in 0..n}

RECURSIVE SumSeq(_)
SumSeq(s) == IF s = <<>> THEN 0 ELSE Head(s) + SumSeq(Tail(s))

RECURSIVE MinSeq(_)
MinSeq(s) ==
    IF Len(s) = 1 THEN Head(s)
    ELSE LET m == MinSeq(Tail(s)) IN IF Head(s) < m THEN Head(s) ELSE m

\* flatten(lol): the items of the inner lists, in order
RECURSIVE flatten(_)
flatten(lol) == IF lol = <<>> THEN <<>> ELSE Head(lol) \o flatten(Tail(lol))

\* s[a:b] of Python for 0 <= a <= b (a 0-based, b exclusive, cut at the end)
Slice(s, a, b) ==
    LET hi == IF b < Len(s) THEN b ELSE Len(s)
    IN  IF a >= hi THEN <<>> ELSE [k \in 1..(hi - a) |-> s[a + k]]

RECURSIVE Pow2(_)
Pow2(k) == IF k = 0 THEN 1 ELSE 2 * Pow2(k - 1)

(***************************************************************************)
(* NormalizationOptions                                                    *)
(***************************************************************************)
LOCAL_NORM == "local"
GLOBAL_NORM == "global"

Unset == "unset"

(***************************************************************************)
(* Decoder._build_predicate_dictionary: name -> index of its (last)        *)
(* occurrence in the predicate list, 0-based.                              *)
(***************************************************************************)
RECURSIVE BuildLoop(_, _, _)
BuildLoop(predicates, i, predicate_dict) ==
    IF i >= Len(predicates) THEN predicate_dict
    ELSE LET name == predicates[i + 1]
         IN  BuildLoop(predicates, i + 1,
                 [n \in (DOMAIN predicate_dict) \cup {name} |->
                     IF n = name THEN i ELSE predicate_dict[n]])

EmptyDict == [n \in {} |-> 0]

\* a plausible slip: enumerate(predicates, 1)
build_predicate_dictionary_from1(predicates) ==
    LET d == BuildLoop(predicates, 0, EmptyDict)
    IN  [n \in DOMAIN d |-> d[n] + 1]

build_predicate_dictionary(predicates) == BuildLoop(predicates, 0, EmptyDict)

(***************************************************************************)
(* Decoder.__init__, for the fields and the steps the claims are about.    *)
(* The result is the object's fields, plus `built`: which of the           *)
(* attributes assigned after the normalization check exist, and `raised`:  *)
(* whether the constructor raised (and so returned no object).             *)
(* parse_model is taken to be given (not None), as train_step needs.       *)
(***************************************************************************)
LateAttributes ==
    {"_predicate2index", "_decomposable",
     "_test_exploration_policy", "_train_exploration_policy"}

FieldsBeforeCheck(config) ==
    [ caching             |-> config.inputs_caching,
      train_step_count    |-> 0,
      correct_predictions |-> 0,
      all_predictions     |-> 0,
      decomposable_data   |-> "None",
      normalization       |-> config.normalization,
      predicate2index     |-> EmptyDict,
      test_exploration_policy  |-> Unset,
      train_exploration_policy |-> Unset,
      built               |-> {},
      raised              |-> FALSE ]

\* a plausible slip: the normalization check placed after the initialization
NewDecoderLateCheck(config, predicates) ==
    LET d0 == FieldsBeforeCheck(config) IN
    [d0 EXCEPT
        !.predicate2index = build_predicate_dictionary(predicates),
        !.test_exploration_policy = "test_policy",
        !.train_exploration_policy = "train_policy",
        !.built = LateAttributes,
        !.raised = (config.normalization = GLOBAL_NORM)]

NewDecoder(config, predicates) ==
    LET d0 == FieldsBeforeCheck(config) IN
    IF config.normalization = GLOBAL_NORM
    THEN [d0 EXCEPT !.raised = TRUE]
    ELSE [d0 EXCEPT
            !.predicate2index = build_predicate_dictionary(predicates),
            !.test_exploration_policy = "test_policy",
            !.train_exploration_policy = "train_policy",
            !.built = LateAttributes]

(***************************************************************************)
(* Decoder.decisions_to_one_hot: one row per decision, len(pred_dict)      *)
(* columns.  An unknown decision is a KeyError; an index past the row (a   *)
(* dictionary built from repeated names has fewer keys than its largest    *)
(* index) is an IndexError.                                                *)
(***************************************************************************)
OneHotRow(width, idx) == [j \in 1..width |-> IF j - 1 = idx THEN 1 ELSE 0]

\* a plausible slip: the row is filled from column idx + 1
OneHotRowShifted(width, idx) == [j \in 1..width |-> IF j - 2 = idx THEN 1 ELSE 0]

decisions_to_one_hot(pred_dict, decisions) ==
    LET width == Cardinality(DOMAIN pred_dict)
        unknown == {i \in 1..Len(decisions) : decisions[i] \notin DOMAIN pred_dict}
        outside == {i \in 1..Len(decisions) :
                        /\ decisions[i] \in DOMAIN pred_dict
                        /\ pred_dict[decisions[i]] >= width}
    IN  IF unknown \cup outside # {}
        THEN LET first == CHOOSE i \in unknown \cup outside :
                              \A j \in unknown \cup outside : i <= j
             IN  [status |-> "raise",
                  error  |-> IF first \in unknown THEN "KeyError" ELSE "IndexError",
                  ret    |-> <<>>]
        ELSE [status |-> "ok", error |-> "",
              ret |-> [i \in 1..Len(decisions) |->
                          OneHotRow(width, pred_dict[decisions[i]])]]

(***************************************************************************)
(* Decoder.exploration_policy and Decoder.predictions.  A beam is the list *)
(* of its paths; Beam.get_terminated keeps the terminated ones, in order.  *)
(***************************************************************************)
\* a plausible slip: the two branches exchanged
exploration_policy_swapped(d, train) ==
    IF train THEN d.test_exploration_policy ELSE d.train_exploration_policy

exploration_policy(d, train) ==
    IF train THEN d.train_exploration_policy ELSE d.test_exploration_policy

get_terminated(beam) == SelectSeq(beam, LAMBDA path : path.terminated)

\* predictions, given the beams its policy's get_beams returns for `examples`
predictions(d, examples, train, policy_beams) ==
    [ calls |-> << [fn |-> "get_beams", on |-> exploration_policy(d, train),
                    args |-> examples] >>,
      ret   |-> [i \in 1..Len(policy_beams) |-> get_terminated(policy_beams[i])] ]

(***************************************************************************)
(* Decoder.get_probs.  A probability is the exact quotient num/den;        *)
(* 0/0 is numpy's nan.  log_prob is held in units of ln 2, so that         *)
(* exp(log_prob) = 1 / 2^(-log_prob) exactly.                              *)
(***************************************************************************)
Quot(a, b) == [num |-> a, den |-> b]

Exp(log_prob) == Quot(1, Pow2(0 - log_prob))

\* a plausible slip: no guard for the empty beam (np.min of an empty array raises)
get_probs_unguarded(d, beam) ==
    IF d.normalization = LOCAL_NORM
    THEN [status |-> "ok", error |-> "",
          ret |-> [i \in 1..Len(beam) |-> Exp(beam[i].log_prob)]]
    ELSE IF Len(beam) = 0
         THEN [status |-> "raise", error |-> "ValueError", ret |-> <<>>]
         ELSE LET stuff == [i \in 1..Len(beam) |-> beam[i].score]
                  lo == MinSeq(stuff)
                  shifted == [i \in 1..Len(beam) |-> stuff[i] - lo]
                  total == SumSeq(shifted)
              IN  [status |-> "ok", error |-> "",
                   ret |-> [i \in 1..Len(beam) |-> Quot(shifted[i], total)]]

get_probs(d, beam) ==
    IF Len(beam) = 0
    THEN [status |-> "ok", error |-> "", ret |-> <<>>]
    ELSE IF d.normalization = LOCAL_NORM
         THEN [status |-> "ok", error |-> "",
               ret |-> [i \in 1..Len(beam) |-> Exp(beam[i].log_prob)]]
         ELSE LET stuff == [i \in 1..Len(beam) |-> beam[i].score]
                  lo == MinSeq(stuff)
                  shifted == [i \in 1..Len(beam) |-> stuff[i] - lo]
                  total == SumSeq(shifted)
              IN  [status |-> "ok", error |-> "",
                   ret |-> [i \in 1..Len(beam) |-> Quot(shifted[i], total)]]

(***************************************************************************)
(* Decoder.score_breakdown.  The Scoring Provider answers one attention    *)
(* and one subscore entry per case, except for the last `short` cases      *)
(* (short = 0: it honours its contract).                                   *)
(***************************************************************************)
\* cumul after the loop over paths: cumul[i + 1] (0-based) = cases of paths[0..i]
RECURSIVE CumulLoop(_, _, _)
CumulLoop(paths, i, cumul) ==
    IF i > Len(paths) THEN cumul
    ELSE CumulLoop(paths, i + 1,
             Append(cumul, cumul[Len(cumul)] + Len(paths[i].cases)))

\* a plausible slip: cumul counts the paths, not their cases
CumulByPath(paths) == [i \in 1..(Len(paths) + 1) |-> i - 1]

Cumul(paths) == CumulLoop(paths, 1, <<0>>)

ProviderScoreBreakdown(cases, short) ==
    LET n == IF Len(cases) >= short THEN Len(cases) - short ELSE 0
    IN  [ attentions |-> [k \in 1..n |-> <<"attention", cases[k]>>],
          subscores  |-> [k \in 1..n |-> <<"subscores", cases[k]>>] ]

score_breakdown(paths, short) ==
    IF Len(paths) = 0
    THEN [calls |-> <<>>, ret |-> << <<>>, <<>> >>]
    ELSE LET cases == flatten([i \in 1..Len(paths) |-> paths[i].cases])
             cumul == Cumul(paths)
             got == ProviderScoreBreakdown(cases, short)
         IN  [ calls |-> << [fn |-> "score_breakdown", on |-> "parse_model",
                             args |-> [cases |-> cases,
                                       ignore_previous_utterances |-> FALSE,
                                       caching |-> FALSE]] >>,
               ret |-> << [i \in 1..Len(paths) |->
                              Slice(got.attentions, cumul[i], cumul[i + 1])],
                          [i \in 1..Len(paths) |->
                              Slice(got.subscores, cumul[i], cumul[i + 1])] >> ]

(***************************************************************************)
(* Decoder.train_decomposable_batches.  Every utterance token is taken to  *)
(* have an embedding and every utterance to fit utter_len, so the          *)
(* embedding and padding of lines 328-341 succeed.  check_denotation of a  *)
(* path against the example's answer is the path's `correct`.              *)
(*                                                                         *)
(* beam_batch_correct is bound only inside the loop, after the test for an *)
(* empty beam; lines 379-380 read it after the loop, which is an           *)
(* UnboundLocalError when no beam of the batch had a path.                 *)
(***************************************************************************)
\* a plausible slip: every path is counted as correct
check_denote_always(path) == 1

check_denote(path) == IF path.correct THEN 1 ELSE 0

\* the zip of examples and beams
ZipLen(examples, beams) ==
    IF Len(examples) < Len(beams) THEN Len(examples) ELSE Len(beams)

\* y_hat_batch's second column, one entry per path visited by the loops
Labels(examples, beams) ==
    flatten([i \in 1..ZipLen(examples, beams) |->
                [p \in 1..Len(beams[i]) |->
                    [path |-> beams[i][p].id, label |-> check_denote(beams[i][p])]]])

train_decomposable_batches(d, beams, examples) ==
    LET count == d.train_step_count + 1
        d1 == [d EXCEPT !.train_step_count = count]
        rows == Labels(examples, beams)
        hits == SumSeq([k \in 1..Len(rows) |-> rows[k].label])
        d2 == [d1 EXCEPT !.correct_predictions = @ + hits,
                         !.all_predictions = @ + Len(rows)]
        bound == \E i \in 1..ZipLen(examples, beams) : Len(beams[i]) # 0
    IN  IF count < 0
        THEN [decoder |-> d1, status |-> "ok", error |-> "", ret |-> <<>>,
              none |-> TRUE]
        ELSE IF ~bound
        THEN [decoder |-> d2, status |-> "raise", error |-> "UnboundLocalError",
              ret |-> <<>>, none |-> FALSE]
        ELSE [decoder |-> d2, status |-> "ok", error |-> "", ret |-> rows,
              none |-> FALSE]

(***************************************************************************)
(* Decoder.train_step.  Of _decomposable_data the model keeps whether it   *)
(* is None or the rows of the last batch.  The case weighter's answer for  *)
(* a path is the path's `w` (any list of weights: its length is the        *)
(* weighter's to get right).  ValueFunctionExample.examples_from_paths     *)
(* gives one example per path.                                             *)
(***************************************************************************)
case_weighter(paths, example) == [p \in 1..Len(paths) |-> paths[p].w]

examples_from_paths(paths, example) ==
    [p \in 1..Len(paths) |-> [example |-> example, path |-> paths[p].id]]

CaseCount(paths) == SumSeq([p \in 1..Len(paths) |-> Len(paths[p].cases)])

\* a plausible slip: the assertion of line 251 left out
RECURSIVE CollectLoopUnchecked(_, _, _, _, _)
CollectLoopUnchecked(examples, beams, i, all_cases, all_case_weights) ==
    IF i > ZipLen(examples, beams)
    THEN [status |-> "ok", seen |-> i - 1,
          all_cases |-> all_cases, all_case_weights |-> all_case_weights]
    ELSE LET paths == beams[i]
             case_weights == flatten(case_weighter(paths, examples[i]))
             cases == flatten([p \in 1..Len(paths) |-> paths[p].cases])
         IN  CollectLoopUnchecked(examples, beams, i + 1,
                 all_cases \o cases, all_case_weights \o case_weights)

\* lines 247-254: the first example whose weights fail the assertion stops
\* the loop; `seen` is the number of case weighter calls made
RECURSIVE CollectLoop(_, _, _, _, _)
CollectLoop(examples, beams, i, all_cases, all_case_weights) ==
    IF i > ZipLen(examples, beams)
    THEN [status |-> "ok", seen |-> i - 1,
          all_cases |-> all_cases, all_case_weights |-> all_case_weights]
    ELSE LET paths == beams[i]
             case_weights == flatten(case_weighter(paths, examples[i]))
             cases == flatten([p \in 1..Len(paths) |-> paths[p].cases])
         IN  IF Len(case_weights) # CaseCount(paths)
             THEN [status |-> "raise", seen |-> i,
                   all_cases |-> all_cases, all_case_weights |-> all_case_weights]
             ELSE CollectLoop(examples, beams, i + 1,
                      all_cases \o cases, all_case_weights \o case_weights)

\* lines 257-262
RECURSIVE PruneLoop(_, _, _, _)
PruneLoop(all_cases, all_case_weights, i, kept) ==
    IF i > Len(all_cases) \/ i > Len(all_case_weights) THEN kept
    ELSE PruneLoop(all_cases, all_case_weights, i + 1,
             IF all_case_weights[i] # 0
             THEN [cases   |-> Append(kept.cases, all_cases[i]),
                   weights |-> Append(kept.weights, all_case_weights[i])]
             ELSE kept)

\* a plausible slip: `weight > 0`, which also drops the negative weights
RECURSIVE PrunePositiveLoop(_, _, _, _)
PrunePositiveLoop(all_cases, all_case_weights, i, kept) ==
    IF i > Len(all_cases) \/ i > Len(all_case_weights) THEN kept
    ELSE PrunePositiveLoop(all_cases, all_case_weights, i + 1,
             IF all_case_weights[i] > 0
             THEN [cases   |-> Append(kept.cases, all_cases[i]),
                   weights |-> Append(kept.weights, all_case_weights[i])]
             ELSE kept)

PrunePositive(all_cases, all_case_weights) ==
    PrunePositiveLoop(all_cases, all_case_weights, 1,
                      [cases |-> <<>>, weights |-> <<>>])

Prune(all_cases, all_case_weights) ==
    PruneLoop(all_cases, all_case_weights, 1, [cases |-> <<>>, weights |-> <<>>])

WeighterCalls(examples, n) ==
    [i \in 1..n |-> [fn |-> "case_weighter", on |-> "case_weighter",
                     args |-> examples[i]]]

\* lines 264-272, reached when every example passed the assertion
ModelUpdates(examples, beams, got) ==
    LET kept == Prune(got.all_cases, got.all_case_weights)
        vf_examples ==
            flatten([i \in 1..ZipLen(examples, beams) |->
                        examples_from_paths(beams[i], examples[i])])
    IN  << [fn |-> "train_step", on |-> "value_function", args |-> vf_examples],
           [fn |-> "train_step", on |-> "parse_model",
            args |-> [cases |-> kept.cases, weights |-> kept.weights,
                      caching |-> FALSE]] >>

train_step(d, examples, policy_beams) ==
    LET pred == predictions(d, examples, TRUE, policy_beams)
        beams == pred.ret
        tdb == train_decomposable_batches(d, beams, examples)
    IN  IF tdb.status = "raise"
        THEN [decoder |-> tdb.decoder, status |-> "raise", error |-> tdb.error,
              calls |-> pred.calls]
        ELSE LET d1 == [tdb.decoder EXCEPT !.decomposable_data =
                                         IF tdb.none THEN "None" ELSE "rows"]
                 got == CollectLoop(examples, beams, 1, <<>>, <<>>)
             IN  IF got.status = "raise"
                 THEN [decoder |-> d1, status |-> "raise",
                       error |-> "AssertionError",
                       calls |-> pred.calls \o WeighterCalls(examples, got.seen)]
                 ELSE [decoder |-> d1, status |-> "ok", error |-> "",
                       calls |-> pred.calls \o WeighterCalls(examples, got.seen)
                                 \o ModelUpdates(examples, beams, got)]

(***************************************************************************)
(* The inputs: what the callers pass and what the collaborators answer.    *)
(***************************************************************************)
Weights == {-1, 0, 1}
LogProbs == {0, -1, -2}
Scores == {-1, 0, 2}
PredicateNames == {"walk", "turn", "stop"}
Vocabulary == <<"walk", "turn", "stop">>

\* a path of a beam by its shape: n cases, whether its denotation is the
\* gold answer, whether it is terminated, and the case weighter's answer w
PathShapes(weight_lists) ==
    [n : 0..MaxPathLen, correct : BOOLEAN, terminated : {TRUE}, w : weight_lists]
    \cup [n : 0..MaxPathLen, correct : {FALSE}, terminated : {FALSE}, w : {<<>>}]

MakePath(e, p, shape) ==
    [ id |-> <<e, p>>,
      cases |-> [k \in 1..shape.n |-> <<e, p, k>>],
      correct |-> shape.correct,
      terminated |-> shape.terminated,
      w |-> shape.w ]

\* the beams an exploration policy returns for a batch: one per example
MakeBeams(batch) ==
    [e \in 1..Len(batch) |->
        [p \in 1..Len(batch[e]) |-> MakePath(e, p, batch[e][p])]]

Smaller(a, b) == IF a < b THEN a ELSE b

\* the batches of exactly k examples whose beams hold at most `budget` paths
RECURSIVE BatchesOf(_, _, _)
BatchesOf(weight_lists, k, budget) ==
    IF k = 0 THEN {<<>>}
    ELSE UNION {{<<beam>> \o rest :
                    rest \in BatchesOf(weight_lists, k - 1, budget - Len(beam))} :
                beam \in SeqsUpTo(PathShapes(weight_lists), Smaller(MaxBeam, budget))}

Batches(weight_lists) ==
    UNION {BatchesOf(weight_lists, k, MaxBatchPaths) : k \in 0..MaxBatch}

\* the examples of a batch, by position
Examples(batch) == [e \in 1..Len(batch) |-> e]

ProbBeams == SeqsUpTo([log_prob : LogProbs, score : Scores], MaxProbBeam)

PathLists ==
    {[i \in 1..Len(lens) |-> [cases |-> [k \in 1..lens[i] |-> <<i, k>>]]] :
        lens \in SeqsUpTo(0..MaxCases, MaxPaths)}

(***************************************************************************)
(* The state machine.  pc: "new" before construction, "idle" between two   *)
(* calls, "returned" or "raised" when a call has ended.                    *)
(***************************************************************************)
NoCall == [op |-> "none", args |-> <<>>, status |-> "none", error |-> "", ret |-> <<>>]

NoDecoder == [built |-> {}, raised |-> FALSE]

Ended(status) == IF status = "ok" THEN "returned" ELSE "raised"

Construct ==
    /\ pc = "new"
    /\ \E normalization \in {LOCAL_NORM, GLOBAL_NORM}, inputs_caching \in BOOLEAN,
          predicates \in SeqsUpTo(PredicateNames, MaxPredicates) :
          LET config == [normalization |-> normalization,
                         inputs_caching |-> inputs_caching]
              d == NewDecoder(config, predicates)
          IN  /\ decoder' = d
              /\ given' = [config |-> config, predicates |-> predicates]
              /\ pc' = IF d.raised THEN "raised" ELSE "returned"
              /\ call' = [op |-> "__init__", args |-> <<>>,
                          status |-> IF d.raised THEN "raise" ELSE "ok",
                          error |-> IF d.raised THEN "ValueError" ELSE "",
                          ret |-> <<>>]
              /\ calls' = <<>>

DecisionsToOneHot ==
    /\ pc = "idle"
    /\ \E decisions \in SeqsUpTo(PredicateNames, MaxDecisions) :
          LET r == decisions_to_one_hot(decoder.predicate2index, decisions)
          IN  /\ pc' = Ended(r.status)
              /\ call' = [op |-> "decisions_to_one_hot", args |-> decisions,
                          status |-> r.status, error |-> r.error, ret |-> r.ret]
    /\ calls' = <<>>
    /\ UNCHANGED <<decoder, given>>

Predictions ==
    /\ pc = "idle"
    /\ \E train \in BOOLEAN, batch \in Batches({<<>>}) :
          LET r == predictions(decoder, Examples(batch), train, MakeBeams(batch))
          IN  /\ call' = [op |-> "predictions",
                          args |-> [examples |-> Examples(batch), train |-> train,
                                    policy_beams |-> MakeBeams(batch)],
                          status |-> "ok", error |-> "", ret |-> r.ret]
              /\ calls' = r.calls
    /\ pc' = "returned"
    /\ UNCHANGED <<decoder, given>>

GetProbs ==
    /\ pc = "idle"
    /\ \E beam \in ProbBeams :
          LET r == get_probs(decoder, beam)
          IN  /\ pc' = Ended(r.status)
              /\ call' = [op |-> "get_probs", args |-> beam,
                          status |-> r.status, error |-> r.error, ret |-> r.ret]
    /\ calls' = <<>>
    /\ UNCHANGED <<decoder, given>>

ScoreBreakdown ==
    /\ pc = "idle"
    /\ \E paths \in PathLists, short \in {0, 1} :
          LET r == score_breakdown(paths, short)
          IN  /\ call' = [op |-> "score_breakdown",
                          args |-> [paths |-> paths, short |-> short],
                          status |-> "ok", error |-> "", ret |-> r.ret]
              /\ calls' = r.calls
    /\ pc' = "returned"
    /\ UNCHANGED <<decoder, given>>

TrainStep ==
    /\ pc = "idle"
    /\ decoder.train_step_count < MaxTrainSteps
    /\ \E batch \in Batches(SeqsUpTo(Weights, MaxPathLen)) :
          LET r == train_step(decoder, Examples(batch), MakeBeams(batch))
          IN  /\ decoder' = r.decoder
              /\ UNCHANGED given
              /\ pc' = Ended(r.status)
              /\ call' = [op |-> "train_step",
                          args |-> [examples |-> Examples(batch),
                                    policy_beams |-> MakeBeams(batch)],
                          status |-> r.status, error |-> r.error, ret |-> <<>>]
              /\ calls' = r.calls

\* the caller takes the outcome and is free to call again; a constructor
\* that raised has given it no object
Return ==
    /\ pc \in {"returned", "raised"}
    /\ ~decoder.raised
    /\ pc' = "idle"
    /\ call' = NoCall
    /\ calls' = <<>>
    /\ UNCHANGED <<decoder, given>>

\* a constructed Decoder (local normalization: the only one construction allows)
LocalConfig == [normalization |-> LOCAL_NORM, inputs_caching |-> TRUE]

Init ==
    /\ decoder = NewDecoder(LocalConfig, Vocabulary)
    /\ given = [config |-> LocalConfig, predicates |-> Vocabulary]
    /\ pc = "idle"
    /\ call = NoCall
    /\ calls = <<>>

Next ==
    \/ Predictions
    \/ GetProbs
    \/ ScoreBreakdown
    \/ TrainStep
    \/ Return

Spec == Init /\ [][Next]_vars

\* construction and the predicate dictionary
InitCtor ==
    /\ decoder = NoDecoder
    /\ given = [config |-> <<>>, predicates |-> <<>>]
    /\ pc = "new"
    /\ call = NoCall
    /\ calls = <<>>

NextCtor ==
    \/ Construct
    \/ DecisionsToOneHot
    \/ Return

SpecCtor == InitCtor /\ [][NextCtor]_vars

\* get_probs on an object of either normalization: the global branch is code
\* of get_probs that the constructor keeps any constructed Decoder away from
InitProbs ==
    /\ \E normalization \in {LOCAL_NORM, GLOBAL_NORM} :
          /\ decoder = [NewDecoder(LocalConfig, Vocabulary)
                           EXCEPT !.normalization = normalization]
          /\ given = [config |-> [LocalConfig EXCEPT !.normalization = normalization],
                      predicates |-> Vocabulary]
    /\ pc = "idle"
    /\ call = NoCall
    /\ calls = <<>>

NextProbs ==
    \/ GetProbs
    \/ Return

SpecProbs == InitProbs /\ [][NextProbs]_vars

\* score_breakdown alone
NextBreakdown ==
    \/ ScoreBreakdown
    \/ Return

SpecBreakdown == Init /\ [][NextBreakdown]_vars

(***************************************************************************)
(* The claims.  What a claim speaks of is restated here from the call's    *)
(* arguments, apart from the operators that compute the call.              *)
(***************************************************************************)
Updates(log) == SelectSeq(log, LAMBDA c : c.fn = "train_step")

Terminated(beam) == SelectSeq(beam, LAMBDA path : path.terminated)

\* the cases and the weights of example e's terminated paths, flattened
CasesOf(policy_beams, e) ==
    LET paths == Terminated(policy_beams[e])
    IN  flatten([p \in 1..Len(paths) |-> paths[p].cases])

WeightsOf(policy_beams, e) ==
    LET paths == Terminated(policy_beams[e])
    IN  flatten([p \in 1..Len(paths) |-> paths[p].w])

HonoursContract(policy_beams) ==
    \A e \in 1..Len(policy_beams) :
        Len(WeightsOf(policy_beams, e)) = Len(CasesOf(policy_beams, e))

\* the concatenated per-example (case, weight) pairs
Pairs(policy_beams) ==
    flatten([e \in 1..Len(policy_beams) |->
                [k \in 1..Len(CasesOf(policy_beams, e)) |->
                    [case |-> CasesOf(policy_beams, e)[k],
                     weight |-> WeightsOf(policy_beams, e)[k]]]])

PathCount(policy_beams) ==
    SumSeq([e \in 1..Len(policy_beams) |-> Len(Terminated(policy_beams[e]))])

CorrectCount(policy_beams) ==
    SumSeq([e \in 1..Len(policy_beams) |->
               Len(SelectSeq(Terminated(policy_beams[e]),
                             LAMBDA path : path.correct))])

Distinct(s) == \A i, j \in 1..Len(s) : s[i] = s[j] => i = j

\* C1: on every batch on which the case weighter honours its length
\* contract, the empty batch and the batch of empty terminated beams
\* included, train_step returns (nothing) and has issued exactly the value
\* function's train_step and then the scoring model's, with caching off.
C1_TrainStepCompletes ==
    (call.op = "train_step" /\ HonoursContract(call.args.policy_beams)) =>
        /\ pc = "returned"
        /\ Len(Updates(calls)) = 2
        /\ Updates(calls)[1].on = "value_function"
        /\ Updates(calls)[2].on = "parse_model"
        /\ Updates(calls)[2].args.caching = FALSE
        /\ calls[Len(calls)] = Updates(calls)[2]

\* C2: the cases and weights given to the scoring model's train_step are
\* the pairs of non-zero weight of the concatenated per-example pairs, each
\* once, in their order, and the two lists are parallel.
C2_PrunedSubsequence ==
    (call.op = "train_step" /\ pc = "returned") =>
        LET kept == SelectSeq(Pairs(call.args.policy_beams),
                              LAMBDA pair : pair.weight # 0)
            update == calls[Len(calls)]
        IN  /\ update.on = "parse_model"
            /\ update.args.cases = [k \in 1..Len(kept) |-> kept[k].case]
            /\ update.args.weights = [k \in 1..Len(kept) |-> kept[k].weight]

\* a call that pruned a zero weight between a negative and a positive one
C2_Witness ==
    /\ call.op = "train_step"
    /\ pc = "returned"
    /\ Len(call.args.examples) = 2
    /\ calls[Len(calls)].args.weights = <<-1, 1>>
    /\ Len(Pairs(call.args.policy_beams)) = 3
    /\ Pairs(call.args.policy_beams)[2].weight = 0

\* C3: a weight list whose length differs from the case count of its
\* example's beam, whichever example it is, makes train_step raise, with
\* neither model's train_step called.
C3_MismatchRaisesBeforeUpdates ==
    (call.op = "train_step" /\ ~HonoursContract(call.args.policy_beams)) =>
        /\ pc = "raised"
        /\ Updates(calls) = <<>>

\* the assertion failing on the last example, the first one having passed
C3_Witness ==
    /\ call.op = "train_step"
    /\ call.error = "AssertionError"
    /\ Len(call.args.examples) = 2
    /\ Len(CasesOf(call.args.policy_beams, 1)) = 1
    /\ Len(WeightsOf(call.args.policy_beams, 1)) = 1
    /\ Len(CasesOf(call.args.policy_beams, 2)) = 1
    /\ Len(WeightsOf(call.args.policy_beams, 2)) = 2

\* C4: with a provider that answers one entry per case, score_breakdown
\* returns two lists of len(paths) groups, group i as long as paths[i] has
\* cases, the groups in order making up the provider's flat answers; for no
\* paths it returns ([], []).
C4_GroupsFollowPaths ==
    (call.op = "score_breakdown" /\ call.args.short = 0) =>
        LET paths == call.args.paths
            cases == flatten([i \in 1..Len(paths) |-> paths[i].cases])
        IN  /\ Len(call.ret) = 2
            /\ \A g \in 1..2 :
                  /\ Len(call.ret[g]) = Len(paths)
                  /\ \A i \in 1..Len(paths) :
                        Len(call.ret[g][i]) = Len(paths[i].cases)
            /\ flatten(call.ret[1]) =
                  [k \in 1..Len(cases) |-> <<"attention", cases[k]>>]
            /\ flatten(call.ret[2]) =
                  [k \in 1..Len(cases) |-> <<"subscores", cases[k]>>]
            /\ (paths = <<>> => call.ret = << <<>>, <<>> >>)

\* paths of 3, 0 and 2 cases grouped as 3, 0 and 2
C4_Witness ==
    /\ call.op = "score_breakdown"
    /\ call.args.short = 0
    /\ Len(call.args.paths) = 3
    /\ Len(call.ret[2][1]) = 3
    /\ Len(call.ret[2][2]) = 0
    /\ Len(call.ret[2][3]) = 2

\* C5: predictions calls get_beams once, on the train policy built at
\* construction when train holds and on the test policy otherwise, returns
\* per returned beam, in order, its terminated paths, calls no model update
\* and leaves correct_predictions, all_predictions and the train step count
\* as they were.
C5_PredictionsFrame ==
    /\ [](call.op = "predictions" =>
            /\ Len(calls) = 1
            /\ calls[1].fn = "get_beams"
            /\ calls[1].on = (IF call.args.train THEN "train_policy"
                                                ELSE "test_policy")
            /\ Len(call.ret) = Len(call.args.policy_beams)
            /\ \A i \in 1..Len(call.ret) :
                  call.ret[i] = Terminated(call.args.policy_beams[i]))
    /\ [][call'.op = "predictions" =>
            /\ decoder'.correct_predictions = decoder.correct_predictions
            /\ decoder'.all_predictions = decoder.all_predictions
            /\ decoder'.train_step_count = decoder.train_step_count]_vars

\* predictions in train mode, after a training step has counted paths, on a
\* beam that holds a terminated path after one that is not
C5_Witness ==
    /\ call.op = "predictions"
    /\ call.args.train
    /\ decoder.all_predictions > 0
    /\ Len(call.args.policy_beams) = 1
    /\ Len(call.args.policy_beams[1]) = 2
    /\ ~call.args.policy_beams[1][1].terminated
    /\ Len(call.ret[1]) = 1

\* C6: construction with normalization = global raises, and no predicate
\* dictionary, classifier model or exploration policy has been built and no
\* Decoder results; with normalization = local it does not raise.
C6_GlobalRaisesAtConstruction ==
    pc # "new" =>
        IF given.config.normalization = GLOBAL_NORM
        THEN /\ pc = "raised"
             /\ call.op = "__init__"
             /\ call.error = "ValueError"
             /\ decoder.built = {}
             /\ decoder.test_exploration_policy = Unset
             /\ decoder.train_exploration_policy = Unset
        ELSE /\ ~decoder.raised
             /\ decoder.built = LateAttributes

\* a construction with global normalization and three predicates
C6_Witness ==
    /\ pc = "raised"
    /\ call.op = "__init__"
    /\ given.config.normalization = GLOBAL_NORM
    /\ Len(given.predicates) = 3

\* C7: get_probs returns, for either normalization, as many entries as the
\* beam has paths, entry i for path i, and for the empty beam an empty array;
\* it does not raise.
C7_ProbsLength ==
    call.op = "get_probs" =>
        LET beam == call.args
            lowest == CHOOSE m \in {beam[i].score : i \in 1..Len(beam)} :
                          \A i \in 1..Len(beam) : m <= beam[i].score
        IN  /\ pc = "returned"
            /\ Len(call.ret) = Len(beam)
            /\ \A i \in 1..Len(beam) :
                  IF decoder.normalization = LOCAL_NORM
                  THEN call.ret[i] = [num |-> 1, den |-> Pow2(0 - beam[i].log_prob)]
                  ELSE call.ret[i].num = beam[i].score - lowest

\* the empty beam under global normalization
C7_Witness ==
    /\ call.op = "get_probs"
    /\ decoder.normalization = GLOBAL_NORM
    /\ call.args = <<>>
    /\ call.ret = <<>>

\* C8: in the global branch, on a non-empty beam, every probability is
\* non-negative and they sum to 1: the divisor is not zero.
C8_GlobalProbsSumToOne ==
    (call.op = "get_probs" /\ decoder.normalization = GLOBAL_NORM
        /\ Len(call.args) > 0) =>
        /\ \A i \in 1..Len(call.ret) :
              /\ call.ret[i].den > 0
              /\ call.ret[i].num >= 0
        /\ SumSeq([i \in 1..Len(call.ret) |-> call.ret[i].num]) = call.ret[1].den

\* C9: for predicates of distinct names the dictionary maps the i-th name
\* to i (from 0), its values being 0..len(predicates)-1, and
\* decisions_to_one_hot of known decisions is the len(decisions) x
\* len(predicates) matrix whose row k has its single 1 in the column of the
\* k-th decision.
C9_DictionaryAndOneHot ==
    (pc # "new" /\ ~decoder.raised /\ Distinct(given.predicates)) =>
        LET predicates == given.predicates
            dict == decoder.predicate2index
        IN  /\ DOMAIN dict = {predicates[i] : i \in 1..Len(predicates)}
            /\ \A i \in 1..Len(predicates) : dict[predicates[i]] = i - 1
            /\ {dict[n] : n \in DOMAIN dict} = 0..(Len(predicates) - 1)
            /\ (/\ call.op = "decisions_to_one_hot"
                /\ \A k \in 1..Len(call.args) : call.args[k] \in DOMAIN dict) =>
                  /\ pc = "returned"
                  /\ Len(call.ret) = Len(call.args)
                  /\ \A k \in 1..Len(call.args) :
                        /\ Len(call.ret[k]) = Len(predicates)
                        /\ \A j \in 1..Len(predicates) :
                              call.ret[k][j] =
                                  IF predicates[j] = call.args[k] THEN 1 ELSE 0

\* [walk, turn, stop] and the decisions [turn, stop]
C9_Witness ==
    /\ call.op = "decisions_to_one_hot"
    /\ given.predicates = <<"walk", "turn", "stop">>
    /\ call.args = <<"turn", "stop">>
    /\ call.ret = << <<0, 1, 0>>, <<0, 0, 1>> >>

\* C10: 0 <= correct_predictions <= all_predictions always; neither counter
\* decreases; only train_step (through train_decomposable_batches, which it
\* runs once) changes them, adding the number of paths of the batch's beams
\* to all_predictions and the number of those whose denotation is the gold
\* answer to correct_predictions.
C10_CountersAccounting ==
    /\ [](/\ 0 <= decoder.correct_predictions
          /\ decoder.correct_predictions <= decoder.all_predictions)
    /\ [][/\ decoder'.correct_predictions >= decoder.correct_predictions
          /\ decoder'.all_predictions >= decoder.all_predictions
          /\ (call'.op # "train_step" => decoder' = decoder)
          /\ (call'.op = "train_step" =>
                /\ decoder'.train_step_count = decoder.train_step_count + 1
                /\ decoder'.all_predictions = decoder.all_predictions
                      + PathCount(call'.args.policy_beams)
                /\ decoder'.correct_predictions = decoder.correct_predictions
                      + CorrectCount(call'.args.policy_beams))]_vars

\* a second training step that counted a correct and an incorrect path on
\* top of counters that were not zero
C10_Witness ==
    /\ call.op = "train_step"
    /\ decoder.train_step_count = 2
    /\ PathCount(call.args.policy_beams) = 2
    /\ CorrectCount(call.args.policy_beams) = 1
    /\ decoder.all_predictions > 2
    /\ decoder.correct_predictions > 1

====
